---- MODULE Spec2Model ----
(***************************************************************************)
(* SimpOs: the boot / first-run setup / login / home menu / command loop   *)
(* state machine of simp_os/kernel.py, the command dispatcher of           *)
(* simp_os/command_parser.py, and the auth, security-log, configuration    *)
(* and AI-mode objects they act on.                                        *)
(*                                                                         *)
(* Python strings are sequences of one-character strings, so that strip(), *)
(* lower() and split() are computed and not assumed.  An Optional[str] is  *)
(* <<>> for None and <<s>> for the string s.  One action is one stretch of *)
(* code between two blocking reads of the terminal (input() / readkey()).  *)
(***************************************************************************)
EXTENDS Naturals, Sequences, FiniteSets, TLC

(* ---------------- string literals of the program ---------------- *)
DEFAULT_ADMIN_CODE == <<"c", "h", "a", "n", "g", "e", "m", "e", "-", "a", "d", "m", "i", "n">>
DEFAULT_REPO_URL == <<"h", "t", "t", "p", "s", ":", "/", "/", "g", "i", "t", "h", "u", "b", ".", "c", "o", "m", "/", "f", "r", "e", "e", "z", "i", "n", "g", "j", "o", "e", "r", "i", "/", "S", "i", "m", "p", "O", "s", ".", "g", "i", "t">>
s_admin == <<"a", "d", "m", "i", "n">>
s_guest == <<"g", "u", "e", "s", "t">>
s_owner == <<"o", "w", "n", "e", "r">>
s_RESET == <<"R", "E", "S", "E", "T">>
s_reset == <<"r", "e", "s", "e", "t">>
s_local == <<"l", "o", "c", "a", "l">>
s_online == <<"o", "n", "l", "i", "n", "e">>
s_status == <<"s", "t", "a", "t", "u", "s">>
s_shutdown == <<"s", "h", "u", "t", "d", "o", "w", "n">>
s_home == <<"h", "o", "m", "e">>
s_reboot == <<"r", "e", "b", "o", "o", "t">>
s_help == <<"h", "e", "l", "p">>
s_clear == <<"c", "l", "e", "a", "r">>
s_ai == <<"a", "i">>
s_netstat == <<"n", "e", "t", "s", "t", "a", "t">>
s_whoami == <<"w", "h", "o", "a", "m", "i">>
s_settings == <<"s", "e", "t", "t", "i", "n", "g", "s">>
s_apps == <<"a", "p", "p", "s">>
s_mkdir == <<"m", "k", "d", "i", "r">>
s_touch == <<"t", "o", "u", "c", "h">>
s_ls == <<"l", "s">>
s_1 == <<"1">>
s_2 == <<"2">>
s_3 == <<"3">>
s_4 == <<"4">>
s_q == <<"q">>
s_a == <<"a">>

(* ---------------- sample terminal inputs ---------------- *)
s_Admin == <<"A", "d", "m", "i", "n">>
s_guest_sp == <<" ", "g", "u", "e", "s", "t", " ">>
s_joe == <<"j", "o", "e">>
s_s3 == <<"s", "3">>
s_s3_sp == <<" ", "s", "3", " ">>
s_RESET_sp == <<" ", "R", "E", "S", "E", "T", " ">>
s_hi == <<"h", "i">>
s_k1 == <<"k", "1">>
s_9 == <<"9">>
s_Q == <<"Q">>
l_blank == <<" ", " ">>
l_Home_sp == <<" ", "H", "o", "m", "e", " ">>
l_SHUTDOWN_now == <<"S", "H", "U", "T", "D", "O", "W", "N", " ", "n", "o", "w">>
l_Reboot == <<"R", "e", "b", "o", "o", "t">>
l_ai_local == <<"a", "i", " ", "l", "o", "c", "a", "l">>
l_ai_Online == <<"a", "i", " ", "O", "n", "l", "i", "n", "e">>
l_ai_status == <<"a", "i", " ", "s", "t", "a", "t", "u", "s">>
l_bogus == <<"b", "o", "g", "u", "s">>
l_home_x == <<"h", "o", "m", "e", " ", "x">>
l_LS_args == <<"L", "s", " ", " ", "-", "l", " ", "A">>

(* ---------------- bounds of the model ---------------- *)
\* At most MaxLogs entries are appended to the security log in one process.
MaxLogs == 2

(* ---------------- str.strip / str.lower / str.split ---------------- *)
\* A test that takes no character for white space; C15 must tell it from
\* IsSpace.
IsSpaceNever(c) == FALSE

IsSpace(c) == c \in {" ", "\t", "\n", "\r"}

RECURSIVE LStrip(_)
LStrip(s) ==
    IF s = <<>> THEN <<>>
    ELSE IF IsSpace(Head(s)) THEN LStrip(Tail(s)) ELSE s

RECURSIVE RStrip(_)
RStrip(s) ==
    IF s = <<>> THEN <<>>
    ELSE IF IsSpace(s[Len(s)]) THEN RStrip(SubSeq(s, 1, Len(s) - 1)) ELSE s

Strip(s) == RStrip(LStrip(s))

UpperAlpha ==
    <<"A", "B", "C", "D", "E", "F", "G", "H", "I", "J", "K", "L", "M",
      "N", "O", "P", "Q", "R", "S", "T", "U", "V", "W", "X", "Y", "Z">>

LowerAlpha ==
    <<"a", "b", "c", "d", "e", "f", "g", "h", "i", "j", "k", "l", "m",
      "n", "o", "p", "q", "r", "s", "t", "u", "v", "w", "x", "y", "z">>

LowerChar(c) ==
    IF \E i \in 1..Len(UpperAlpha) : UpperAlpha[i] = c
    THEN LowerAlpha[CHOOSE i \in 1..Len(UpperAlpha) : UpperAlpha[i] = c]
    ELSE c

RECURSIVE Lower(_)
\* A case-folding that folds nothing; C17 must tell it from Lower.
LowerNot(s) == s

Lower(s) ==
    IF s = <<>> THEN <<>> ELSE <<LowerChar(Head(s))>> \o Lower(Tail(s))

\* s.split(): the maximal runs of non-whitespace characters, in order.
RECURSIVE SplitAcc(_, _, _)
SplitAcc(s, cur, acc) ==
    IF s = <<>> THEN (IF cur = <<>> THEN acc ELSE Append(acc, cur))
    ELSE IF IsSpace(Head(s))
         THEN SplitAcc(Tail(s), <<>>, IF cur = <<>> THEN acc ELSE Append(acc, cur))
         ELSE SplitAcc(Tail(s), Append(cur, Head(s)), acc)

\* A split that keeps the line in one piece; C14 must tell it from Split.
SplitNot(s) == <<s>>

Split(s) == SplitAcc(s, <<>>, <<>>)

\* Python's `x or y` on strings: the empty string is falsy.
OrElse(s, dflt) == IF s = <<>> THEN dflt ELSE s

(* ---------------- Optional[str] ---------------- *)
None == <<>>
Some(s) == <<s>>
\* Truthiness of an Optional[str]: None and "" are falsy.
Truthy(o) == o # None /\ o[1] # <<>>

(* ---------------- config.py ---------------- *)
\* SimpConfig(): the dataclass defaults.
SimpConfig ==
    [admin_code          |-> DEFAULT_ADMIN_CODE,
     ai_mode             |-> "local",
     api_key             |-> None,
     allow_online_ai     |-> FALSE,
     update_repo_url     |-> None,
     owner_name          |-> None,
     first_run_completed |-> FALSE]

\* JSON values, as json.dumps writes and json.loads reads them: a string, a
\* boolean, null.
JStr(s) == [str |-> s]
JBool(b) == [bool |-> b]
JNull == [null |-> TRUE]

\* An Optional[str] field as JSON, and back.
\* An encoding that writes the empty string as null; C19 must tell it from
\* JOpt.
JOptBlankAsNull(o) == IF o = None \/ o[1] = <<>> THEN JNull ELSE JStr(o[1])

JOpt(o) == IF o = None THEN JNull ELSE JStr(o[1])
FromJOpt(v) == IF "str" \in DOMAIN v THEN Some(v.str) ELSE None

\* bool(v) of a parsed JSON value.
Bool(v) ==
    IF "bool" \in DOMAIN v THEN v.bool
    ELSE IF "str" \in DOMAIN v THEN v.str # <<>>
    ELSE FALSE

\* json.dumps(asdict(cfg)): a JSON object.
\* An object written without the allow_online_ai member; C21 must tell it
\* from asdict.
asdictNoFlag(c) ==
    [admin_code          |-> JStr(c.admin_code),
     ai_mode             |-> JStr(c.ai_mode),
     api_key             |-> JOpt(c.api_key),
     update_repo_url     |-> JOpt(c.update_repo_url),
     owner_name          |-> JOpt(c.owner_name),
     first_run_completed |-> JBool(c.first_run_completed)]

asdict(c) ==
    [admin_code          |-> JStr(c.admin_code),
     ai_mode             |-> JStr(c.ai_mode),
     api_key             |-> JOpt(c.api_key),
     allow_online_ai     |-> JBool(c.allow_online_ai),
     update_repo_url     |-> JOpt(c.update_repo_url),
     owner_name          |-> JOpt(c.owner_name),
     first_run_completed |-> JBool(c.first_run_completed)]

\* The content CONFIG_FILE.write_text leaves on disk; the file is <<>> when
\* absent and <<content>> when present.  A content is of kind "dict" (a JSON
\* object, its members in data), "garbage" (text json.loads rejects) or
\* "nondict" (valid JSON that is not an object: a list, a string, a number).
save_config(c) == <<[kind |-> "dict", data |-> asdict(c)]>>

\* data.get(key, dflt) on the parsed JSON object.
Get(data, key, dflt) == IF key \in DOMAIN data THEN data[key] ELSE dflt

\* SimpConfig(...) built from the parsed object (config.py 35-43); only the
\* two flags are converted, by bool().
FromData(d) ==
    [admin_code          |-> Get(d, "admin_code", JStr(DEFAULT_ADMIN_CODE)).str,
     ai_mode             |-> Get(d, "ai_mode", JStr("local")).str,
     api_key             |-> FromJOpt(Get(d, "api_key", JNull)),
     allow_online_ai     |-> Bool(Get(d, "allow_online_ai", JBool(FALSE))),
     update_repo_url     |-> FromJOpt(Get(d, "update_repo_url", JNull)),
     owner_name          |-> FromJOpt(Get(d, "owner_name", JNull)),
     first_run_completed |-> Bool(Get(d, "first_run_completed", JBool(FALSE)))]

\* load_config() as <<returned config, file afterwards, exception raised>>.
\* On "nondict" content json.loads succeeds and `data.get` raises
\* AttributeError outside the try: nothing is returned (the first component
\* is then only a filler) and the file is left as it is.
load_config(f) ==
    IF f = <<>> THEN <<SimpConfig, save_config(SimpConfig), "none">>
    ELSE IF f[1].kind = "garbage" THEN <<SimpConfig, save_config(SimpConfig), "none">>
    ELSE IF f[1].kind = "nondict" THEN <<SimpConfig, f, "AttributeError">>
    ELSE <<FromData(f[1].data), f, "none">>

(* ---------------- the state ---------------- *)
VARIABLES
    file,           \* simp_config.json: <<>> absent, <<content>> present
    cfg,            \* SimpKernel.cfg, shared by auth, ai and the parser
    failed_logins,  \* SecurityManager.failed_logins
    logs,           \* SecurityManager.logs (timestamps left out)
    current_user,   \* AuthManager.current_user: <<>> or <<User>>
    ai_status,      \* SimpAI.status
    pc,             \* the read the process is blocked on, or a control point
    ret,            \* who called the running handler: "home" or "cmd"
    exc,            \* the exception propagating, "none" when there is none
    owner,          \* _first_run_setup_if_needed: local `owner`
    new_code,       \* _first_run_setup_if_needed: local `new_code`
    username,       \* AuthManager.login: local `username`
    shutdown_runs,  \* how often kernel.shutdown() ran in this process
    call,           \* the handler call handle_line made in the step just taken:
                    \* <<>> for none, else <<[handler, args]>>
    last            \* the step just taken: the read it answered, and its outcome

vars ==
    <<file, cfg, failed_logins, logs, current_user, ai_status, pc, ret, exc,
      owner, new_code, username, shutdown_runs, call, last>>

\* Frames.
store == <<file, cfg>>
security == <<failed_logins, logs>>
locals == <<owner, new_code, username>>

Step(op, out) == [op |-> op, out |-> out]

(* ---------------- construction ---------------- *)
\* AiStatus(mode=cfg.ai_mode, ...).  last_action is only ever printed by
\* show_status and online_available is written once and never read; neither
\* decides anything, and both are left out.
AiStatus(c) == [mode |-> c.ai_mode]

\* A configuration as an earlier run may have left it on disk.
StoredConfigs ==
    { [SimpConfig EXCEPT !.first_run_completed = TRUE,
                         !.admin_code = code,
                         !.owner_name = Some(s_joe)] :
        code \in {DEFAULT_ADMIN_CODE, s_s3} }

\* What the process may find on disk when it starts.
InitialFiles ==
    {<<>>} \cup {save_config(c) : c \in StoredConfigs}
    \cup {<<[kind |-> "garbage", data |-> <<>>]>>}
    \cup {<<[kind |-> "dict", data |-> [owner_name |-> JStr(s_joe)]]>>}
    \cup {<<[kind |-> "nondict", data |-> <<>>]>>}

\* SimpKernel.__init__: the fields of the new kernel, started on the file f.
\* When load_config raises, no kernel is built and main() never reaches its
\* try: `raised` is the exception that ends the process, and the other
\* fields are those of a kernel that does not exist.
SimpKernel(f) ==
    [raised        |-> load_config(f)[3],
     cfg           |-> load_config(f)[1],
     file          |-> load_config(f)[2],
     failed_logins |-> 0,
     logs          |-> <<>>,
     current_user  |-> <<>>,
     ai_status     |-> AiStatus(load_config(f)[1])]

Init ==
    /\ \E f \in InitialFiles :
        /\ cfg = SimpKernel(f).cfg
        /\ file = SimpKernel(f).file
        /\ failed_logins = SimpKernel(f).failed_logins
        /\ logs = SimpKernel(f).logs
        /\ current_user = SimpKernel(f).current_user
        /\ ai_status = SimpKernel(f).ai_status
        /\ exc = SimpKernel(f).raised
        /\ pc = IF SimpKernel(f).raised = "none" THEN "boot" ELSE "exited"
        /\ last = Step("init", IF SimpKernel(f).raised = "none" THEN "none" ELSE "traceback")
    /\ ret = "home"
    /\ owner = <<>>
    /\ new_code = <<>>
    /\ username = <<>>
    /\ shutdown_runs = 0
    /\ call = <<>>

(* ---------------- security.py / auth.py ---------------- *)
\* SecurityManager.log: append one entry.
\* A log that keeps its latest entry only; C22 must tell it from log.
logLatestOnly(l, user, event) == <<[user |-> user, event |-> event]>>

log(l, user, event) == Append(l, [user |-> user, event |-> event])

\* AuthManager.require_admin.
\* A gate that lets every logged-in user through; C2 must tell it from
\* require_admin.
require_admin_any_user == current_user # <<>>

require_admin == current_user # <<>> /\ current_user[1].is_admin

User(name, is_admin) == [username |-> name, is_admin |-> is_admin]

\* login(): `User(username=username, is_admin=False)` for a normal user.
\* A login that grants the admin flag to everyone; C8 must tell it from
\* NormalUser.
PrivilegedUser(name) == User(name, TRUE)

NormalUser(name) == User(name, FALSE)

\* login(): `username.lower() == "admin"`.
IsAdminName(name) == Lower(name) = s_admin

(* ---------------- kernel.py: boot and first-run setup ---------------- *)
\* _boot_once up to its first read: _first_run_setup_if_needed either returns
\* at once and _run_boot_sequence prints its five steps, or setup starts.
BootOnce ==
    /\ pc = "boot"
    /\ call' = <<>>
    /\ IF cfg.first_run_completed
       THEN pc' = "diag_ack" /\ last' = Step("boot", "diagnostics")
       ELSE pc' = "setup_owner" /\ last' = Step("boot", "first_time_setup")
    /\ UNCHANGED <<store, security, current_user, ai_status, ret, exc, locals,
                   shutdown_runs>>

SetupOwner(inp) ==
    /\ pc = "setup_owner"
    /\ call' = <<>>
    /\ owner' = OrElse(Strip(inp), s_owner)
    /\ pc' = "setup_code"
    /\ last' = Step("setup_owner", "none")
    /\ UNCHANGED <<store, security, current_user, ai_status, ret, exc, new_code,
                   username, shutdown_runs>>

SetupCode(inp) ==
    /\ pc = "setup_code"
    /\ call' = <<>>
    /\ new_code' = OrElse(Strip(inp), cfg.admin_code)
    /\ pc' = "setup_confirm"
    /\ last' = Step("setup_code", "none")
    /\ UNCHANGED <<store, security, current_user, ai_status, ret, exc, owner,
                   username, shutdown_runs>>

\* `new_code != confirm`.
\* A confirmation that is never compared; C9 must tell it from CodesMatch.
CodesNotCompared(code, confirm) == TRUE

CodesMatch(code, confirm) == code = confirm

SetupConfirm(inp) ==
    /\ pc = "setup_confirm"
    /\ call' = <<>>
    /\ IF ~CodesMatch(new_code, Strip(inp))
       THEN /\ pc' = "setup_code"
            /\ last' = Step("setup_confirm", "codes_do_not_match")
            /\ UNCHANGED <<store, owner>>
            /\ new_code' = <<>>
       ELSE /\ cfg' = [cfg EXCEPT !.admin_code = new_code,
                                  !.owner_name = Some(owner),
                                  !.first_run_completed = TRUE]
            /\ file' = save_config(cfg')
            /\ pc' = "setup_ack"
            /\ last' = Step("setup_confirm", "setup_complete")
            /\ owner' = <<>> /\ new_code' = <<>>
    /\ UNCHANGED <<security, current_user, ai_status, ret, exc, username,
                   shutdown_runs>>

\* "Press ENTER to continue booting...", then _run_boot_sequence.
SetupAck(inp) ==
    /\ pc = "setup_ack"
    /\ call' = <<>>
    /\ pc' = "diag_ack"
    /\ last' = Step("setup_ack", "diagnostics")
    /\ UNCHANGED <<store, security, current_user, ai_status, ret, exc, locals,
                   shutdown_runs>>

\* "System ready. Press ENTER to continue to login.", then the login loop.
\* An acknowledgment that goes to the home menu with no login; C24 must tell
\* it from DiagAck.
DiagAckToHome(inp) ==
    /\ pc = "diag_ack"
    /\ call' = <<>>
    /\ pc' = "home"
    /\ last' = Step("diag_ack", "login")
    /\ UNCHANGED <<store, security, current_user, ai_status, ret, exc, locals,
                   shutdown_runs>>

DiagAck(inp) ==
    /\ pc = "diag_ack"
    /\ call' = <<>>
    /\ pc' = "login_username"
    /\ last' = Step("diag_ack", "login")
    /\ UNCHANGED <<store, security, current_user, ai_status, ret, exc, locals,
                   shutdown_runs>>

(* ---------------- auth.py: login ---------------- *)
LoginUsername(inp) ==
    /\ pc = "login_username"
    /\ call' = <<>>
    /\ LET name == OrElse(Strip(inp), s_guest) IN
        IF IsAdminName(name)
        THEN /\ username' = name
             /\ pc' = "login_code"
             /\ last' = Step("login_username", "ask_code")
             /\ UNCHANGED <<security, current_user>>
        ELSE /\ Len(logs) < MaxLogs
             /\ current_user' = <<NormalUser(name)>>
             /\ logs' = log(logs, name, "user_login")
             /\ username' = <<>>
             /\ pc' = "home"
             /\ last' = Step("login_username", "user_login")
             /\ UNCHANGED failed_logins
    /\ UNCHANGED <<store, ai_status, ret, exc, owner, new_code, shutdown_runs>>

\* login(): `code != self.cfg.admin_code`.
\* A check that takes any non-empty code; C7 must tell it from CodeAccepted.
AnyCodeAccepted(code) == code # <<>>

CodeAccepted(code) == code = cfg.admin_code

LoginCode(inp) ==
    /\ pc = "login_code"
    /\ call' = <<>>
    /\ Len(logs) < MaxLogs
    /\ IF ~CodeAccepted(Strip(inp))
       THEN /\ failed_logins' = failed_logins + 1
            /\ logs' = log(logs, username, "failed_login")
            /\ pc' = "login_username"
            /\ last' = Step("login_code", "invalid_admin_code")
            /\ UNCHANGED current_user
       ELSE /\ current_user' = <<User(s_admin, TRUE)>>
            /\ logs' = log(logs, s_admin, "admin_login")
            /\ pc' = "home"
            /\ last' = Step("login_code", "admin_login")
            /\ UNCHANGED failed_logins
    /\ username' = <<>>
    /\ UNCHANGED <<store, ai_status, ret, exc, owner, new_code, shutdown_runs>>

(* ---------------- ai.py ---------------- *)
\* `self.cfg.allow_online_ai and self.cfg.api_key`.
\* A gate that looks at the flag only; C18 must tell it from OnlineAllowed.
OnlineAllowedByFlag(c) == c.allow_online_ai

OnlineAllowed(c) == c.allow_online_ai /\ Truthy(c.api_key)

\* SimpAI.set_mode(mode): the configuration, file, status and message after it.
\* A switch that sets the status and leaves the configuration alone; C27
\* must tell it from set_mode.
set_mode_status_only(mode) ==
    [cfg |-> cfg, file |-> file, status |-> [ai_status EXCEPT !.mode = mode],
     out |-> "mode_set"]

set_mode(mode) ==
    IF mode \notin {"local", "online"}
    THEN [cfg |-> cfg, file |-> file, status |-> ai_status, out |-> "unknown_ai_mode"]
    ELSE IF mode = "online" /\ ~OnlineAllowed(cfg)
    THEN [cfg |-> cfg, file |-> file, status |-> ai_status,
          out |-> "online_mode_not_available"]
    ELSE [cfg    |-> [cfg EXCEPT !.ai_mode = mode],
          file   |-> save_config([cfg EXCEPT !.ai_mode = mode]),
          status |-> [ai_status EXCEPT !.mode = mode],
          out    |-> "mode_set"]

\* SimpAI.ask -> _handle_online / _handle_local: the answer printed.
ask ==
    IF cfg.ai_mode = "online"
    THEN IF ~OnlineAllowed(cfg) THEN "ai_access_denied" ELSE "online_answer"
    ELSE "local_answer"

(* ---------------- command_parser.py: the handlers' first stretch ---------------- *)
\* Each Enter_* is a handler from its call to its first read or its return;
\* `caller` is "home" (_home_screen) or "cmd" (_command_loop via handle_line),
\* the prompt control goes back to when the handler returns.

\* _cmd_admin.
Enter_cmd_admin(caller, op) ==
    /\ IF ~require_admin
       THEN pc' = caller /\ ret' = "home" /\ last' = Step(op, "access_denied")
       ELSE pc' = "admin_choice" /\ ret' = caller /\ last' = Step(op, "admin_menu")
    /\ UNCHANGED <<store, security, current_user, ai_status, exc, locals, shutdown_runs>>

\* _cmd_settings.
Enter_cmd_settings(caller, op) ==
    /\ pc' = "settings_choice" /\ ret' = caller
    /\ last' = Step(op, "settings_menu")
    /\ UNCHANGED <<store, security, current_user, ai_status, exc, locals, shutdown_runs>>

\* _cmd_apps.
Enter_cmd_apps(caller, op) ==
    /\ pc' = "apps_choice" /\ ret' = caller
    /\ last' = Step(op, "apps_menu")
    /\ UNCHANGED <<store, security, current_user, ai_status, exc, locals, shutdown_runs>>

\* _settings_reset, which _cmd_reset and the settings menu both call.
Enter_settings_reset(caller, op) ==
    /\ pc' = "reset_code" /\ ret' = caller
    /\ last' = Step(op, "admin_verification_required")
    /\ UNCHANGED <<store, security, current_user, ai_status, exc, locals, shutdown_runs>>

\* _cmd_ai(args).
Enter_cmd_ai(caller, op, args) ==
    IF args = <<>>
    THEN /\ pc' = "ai_question" /\ ret' = caller
         /\ last' = Step(op, "ai_prompt")
         /\ UNCHANGED <<store, security, current_user, ai_status, exc, locals,
                        shutdown_runs>>
    ELSE LET sub == Lower(args[1]) IN
         /\ pc' = caller /\ ret' = "home"
         /\ IF sub = s_local \/ sub = s_online
            THEN LET r == set_mode(IF sub = s_local THEN "local" ELSE "online") IN
                 /\ cfg' = r.cfg /\ file' = r.file /\ ai_status' = r.status
                 /\ last' = Step(op, r.out)
            ELSE /\ last' = Step(op, IF sub = s_status THEN "ai_status" ELSE "ai_usage")
                 /\ UNCHANGED <<store, ai_status>>
         /\ UNCHANGED <<security, current_user, exc, locals, shutdown_runs>>

\* _cmd_reboot, and "Reboot" of the home menu: raise SystemExit("REBOOT").
RaiseReboot(op) ==
    /\ pc' = "unwinding" /\ exc' = "REBOOT" /\ ret' = "home"
    /\ last' = Step(op, "reboot_requested")
    /\ UNCHANGED <<store, security, current_user, ai_status, locals, shutdown_runs>>

\* A handler that only prints: help, clear, status, netstat, whoami, the
\* no-op lambdas of "home" and "shutdown", and _stub_future.
PrintOnly(caller, op, out) ==
    /\ pc' = caller /\ ret' = "home"
    /\ last' = Step(op, out)
    /\ UNCHANGED <<store, security, current_user, ai_status, exc, locals, shutdown_runs>>

(* ---------------- kernel.py: the home menu ---------------- *)
options ==
    <<"Open command line", "Apps", "Settings", "Admin tools", "AI console",
      "Shutdown", "Reboot">>

\* One pass of _home_screen's loop; choice is what select_menu returned:
\* 0 for None (q / ESC), i for the index i - 1.
HomeScreen(choice) ==
    /\ pc = "home"
    /\ call' = <<>>
    /\ LET sel == IF choice = 0 THEN <<>> ELSE <<options[choice]>> IN
       IF sel = <<>> \/ sel = <<"Open command line">>
       THEN /\ pc' = "cmd" /\ ret' = "home"
            /\ last' = Step("home", "command_line")
            /\ UNCHANGED <<store, security, current_user, ai_status, exc, locals,
                           shutdown_runs>>
       ELSE CASE sel[1] = "Apps" -> Enter_cmd_apps("home", "home")
              [] sel[1] = "Settings" -> Enter_cmd_settings("home", "home")
              [] sel[1] = "Admin tools" -> Enter_cmd_admin("home", "home")
              [] sel[1] = "AI console" -> Enter_cmd_ai("home", "home", <<>>)
              [] sel[1] = "Shutdown" ->
                    /\ pc' = "shutdown" /\ ret' = "home"
                    /\ last' = Step("home", "shutdown_selected")
                    /\ UNCHANGED <<store, security, current_user, ai_status, exc,
                                   locals, shutdown_runs>>
              [] sel[1] = "Reboot" -> RaiseReboot("home")

(* ---------------- command_parser.py: handle_line ---------------- *)
\* The names _register_builtin_commands registers.
\* A registry that also holds the name "bogus"; C16 must tell it from
\* Commands.
CommandsAndBogus ==
    {s_help, s_clear, s_status, s_ai, s_netstat, s_whoami, s_shutdown, s_reboot,
     s_admin, s_settings, s_apps, s_home, s_reset, s_mkdir, s_touch, s_ls, l_bogus}

Commands ==
    {s_help, s_clear, s_status, s_ai, s_netstat, s_whoami, s_shutdown, s_reboot,
     s_admin, s_settings, s_apps, s_home, s_reset, s_mkdir, s_touch, s_ls}

\* What the print-only handler registered under cmd prints.
PrintOf(cmd) ==
    CASE cmd = s_help -> "help"
      [] cmd = s_clear -> "clear"
      [] cmd = s_status -> "status"
      [] cmd = s_netstat -> "netstat"
      [] cmd = s_whoami -> "whoami"
      [] cmd \in {s_mkdir, s_touch, s_ls} -> "future_stub"
      [] OTHER -> "none"

\* The lines typed at the command prompt: in the main runs, and in the runs
\* of the AI profile.
CommandLines ==
    {<<>>, l_blank, l_Home_sp, l_home_x, s_shutdown, l_SHUTDOWN_now, l_Reboot,
     s_admin, s_settings, s_apps, s_reset, s_ai, l_ai_local, l_ai_Online,
     l_ai_status, s_whoami, l_LS_args, l_bogus}
AICommandLines == {s_ai, l_ai_local, l_ai_Online, s_admin, l_Home_sp, l_Reboot}

\* What the command loop and handle_line compute from the line alone:
\* line.strip().lower() (kernel.py 121), line.strip() and its split()
\* (command_parser.py 46, 50).
LineFacts(line) ==
    [loop_cmd |-> Lower(Strip(line)),
     stripped |-> Strip(line),
     parts    |-> Split(Strip(line))]

\* LineFacts of the lines typed, computed once.
MemoLines == CommandLines \cup AICommandLines
Memo == [l \in MemoLines |-> LineFacts(l)]
Facts(line) == IF line \in MemoLines THEN Memo[line] ELSE LineFacts(line)

\* The kernel's own test of the line, before dispatch: `cmd == "shutdown"`.
IsShutdownLine(line) == Facts(line).loop_cmd = s_shutdown

\* `cmd == "home"`.
\* A test that takes `home` in lower case only; C26 must tell it from
\* IsHomeLine.
IsHomeLineExactCase(line) == Facts(line).stripped = s_home

IsHomeLine(line) == Facts(line).loop_cmd = s_home

\* Where _command_loop goes when its loop is left by `break`: the function
\* returns to _home_screen, whose loop continues.
AfterBreak == "home"

\* self._commands: the handler registered under each name.
handlers(cmd) ==
    CASE cmd = s_help -> "_cmd_help"
      [] cmd = s_clear -> "_cmd_clear"
      [] cmd = s_status -> "_cmd_status"
      [] cmd = s_ai -> "_cmd_ai"
      [] cmd = s_netstat -> "_cmd_netstat"
      [] cmd = s_whoami -> "_cmd_whoami"
      [] cmd = s_shutdown -> "lambda_shutdown"
      [] cmd = s_reboot -> "_cmd_reboot"
      [] cmd = s_admin -> "_cmd_admin"
      [] cmd = s_settings -> "_cmd_settings"
      [] cmd = s_apps -> "_cmd_apps"
      [] cmd = s_home -> "lambda_home"
      [] cmd = s_reset -> "_cmd_reset"
      [] cmd \in {s_mkdir, s_touch, s_ls} -> "_stub_future"
      [] OTHER -> "None"

\* `handler(args)`: the call as the step records it.
Call(cmd, args) == <<[handler |-> handlers(cmd), args |-> args]>>

\* handle_line(line), called from _command_loop; continuing the loop is a
\* return to the "cmd" prompt, a False result breaks it.
handle_line(line) ==
    LET stripped == Facts(line).stripped
        parts == Facts(line).parts
        cmd == Lower(parts[1])
        args == Tail(parts)
    IN
    IF stripped = <<>>
    THEN PrintOnly("cmd", "cmd", "none") /\ call' = <<>>
    ELSE IF cmd \notin Commands
    THEN PrintOnly("cmd", "cmd", "unknown_command") /\ call' = <<>>
    ELSE IF cmd = s_shutdown
    THEN PrintOnly(AfterBreak, "cmd", "stop") /\ call' = <<>>
    ELSE /\ call' = Call(cmd, args)
         /\ CASE cmd = s_ai -> Enter_cmd_ai("cmd", "cmd", args)
              [] cmd = s_reboot -> RaiseReboot("cmd")
              [] cmd = s_admin -> Enter_cmd_admin("cmd", "cmd")
              [] cmd = s_settings -> Enter_cmd_settings("cmd", "cmd")
              [] cmd = s_apps -> Enter_cmd_apps("cmd", "cmd")
              [] cmd = s_reset -> Enter_settings_reset("cmd", "cmd")
              [] OTHER -> PrintOnly("cmd", "cmd", PrintOf(cmd))

(* ---------------- kernel.py: the command loop ---------------- *)
CommandLoop(line) ==
    /\ pc = "cmd"
    /\ IF IsShutdownLine(line)
       THEN PrintOnly(AfterBreak, "cmd", "stop") /\ call' = <<>>
       ELSE IF IsHomeLine(line)
       THEN PrintOnly("home", "cmd", "go_home") /\ call' = <<>>
       ELSE handle_line(line)

(* ---------------- command_parser.py: the submenus ---------------- *)
\* Leaving a handler: back to the prompt of its caller.
Return(op, out) ==
    /\ pc' = ret /\ ret' = "home"
    /\ last' = Step(op, out)

AiQuestion(inp) ==
    /\ pc = "ai_question"
    /\ call' = <<>>
    /\ Return("ai_question", ask)
    /\ UNCHANGED <<store, security, current_user, ai_status, exc, locals,
                   shutdown_runs>>

\* _cmd_admin after "Select option (ENTER to cancel): ".
AdminChoice(inp) ==
    /\ pc = "admin_choice"
    /\ call' = <<>>
    /\ LET choice == Strip(inp) IN
       IF choice = s_2
       THEN /\ pc' = "admin_key" /\ ret' = ret
            /\ last' = Step("admin_choice", "ask_api_key")
            /\ UNCHANGED store
       ELSE IF choice = s_3
       THEN /\ cfg' = [cfg EXCEPT !.allow_online_ai = ~cfg.allow_online_ai]
            /\ file' = save_config(cfg')
            /\ Return("admin_choice", "online_ai_toggled")
       ELSE /\ Return("admin_choice", IF choice = <<>> THEN "cancel"
                      ELSE IF choice = s_1 THEN "security_logs"
                      ELSE IF choice = s_4 THEN "current_config"
                      ELSE "none")
            /\ UNCHANGED store
    /\ UNCHANGED <<security, current_user, ai_status, exc, locals, shutdown_runs>>

\* "New API key (empty to clear): ".
AdminKey(inp) ==
    /\ pc = "admin_key"
    /\ call' = <<>>
    /\ LET key == Strip(inp) IN
       cfg' = [cfg EXCEPT !.api_key = IF key = <<>> THEN None ELSE Some(key)]
    /\ file' = save_config(cfg')
    /\ Return("admin_key", "api_key_updated")
    /\ UNCHANGED <<security, current_user, ai_status, exc, locals, shutdown_runs>>

\* _cmd_settings after its read; choice "3" is _settings_update up to its
\* read, choice "4" is _settings_reset.
SettingsChoice(inp) ==
    /\ pc = "settings_choice"
    /\ call' = <<>>
    /\ LET choice == Strip(inp) IN
       IF choice = s_3
       THEN /\ IF ~require_admin
               THEN Return("settings_choice", "access_denied")
               ELSE /\ pc' = "update_url" /\ ret' = ret
                    /\ last' = Step("settings_choice", "ask_repo_url")
            /\ UNCHANGED <<store, security, current_user, ai_status, exc, locals,
                           shutdown_runs>>
       ELSE IF choice = s_4
       THEN Enter_settings_reset(ret, "settings_choice")
       ELSE /\ Return("settings_choice", IF choice = <<>> THEN "cancel"
                      ELSE IF choice = s_1 THEN "system_info"
                      ELSE IF choice = s_2 THEN "check_updates"
                      ELSE "none")
            /\ UNCHANGED <<store, security, current_user, ai_status, exc, locals,
                           shutdown_runs>>

\* _settings_update after "GitHub repo URL (ENTER to keep current): "; the git
\* run that follows only prints how it ended.
SettingsUpdate(inp) ==
    /\ pc = "update_url"
    /\ call' = <<>>
    /\ LET current == IF Truthy(cfg.update_repo_url) THEN cfg.update_repo_url[1]
                      ELSE DEFAULT_REPO_URL
           url == OrElse(Strip(inp), current)
       IN cfg' = [cfg EXCEPT !.update_repo_url = Some(url)]
    /\ file' = save_config(cfg')
    /\ Return("update_url", "repo_url_saved")
    /\ UNCHANGED <<security, current_user, ai_status, exc, locals, shutdown_runs>>

\* _settings_reset: `code != self.cfg.admin_code`.
ResetCodeAccepted(code) == code = cfg.admin_code

\* _settings_reset after "Enter admin code: ".
\* A prompt that makes whoever enters the admin code an admin; C29 must tell
\* it from ResetCode.
ResetCodeElevates(inp) ==
    /\ pc = "reset_code"
    /\ call' = <<>>
    /\ IF ~ResetCodeAccepted(Strip(inp))
       THEN Return("reset_code", "reset_aborted") /\ UNCHANGED current_user
       ELSE /\ pc' = "reset_confirm" /\ ret' = ret
            /\ last' = Step("reset_code", "ask_confirm")
            /\ current_user' = <<User(current_user[1].username, TRUE)>>
    /\ UNCHANGED <<store, security, ai_status, exc, locals, shutdown_runs>>

ResetCode(inp) ==
    /\ pc = "reset_code"
    /\ call' = <<>>
    /\ IF ~ResetCodeAccepted(Strip(inp))
       THEN Return("reset_code", "reset_aborted")
       ELSE /\ pc' = "reset_confirm" /\ ret' = ret
            /\ last' = Step("reset_code", "ask_confirm")
    /\ UNCHANGED <<store, security, current_user, ai_status, exc, locals,
                   shutdown_runs>>

\* `confirm != "RESET"`.
\* A confirmation compared without regard to letter case; C10 must tell it
\* from Confirmed.
ConfirmedAnyCase(confirm) == Lower(confirm) = s_reset

Confirmed(confirm) == confirm = s_RESET

\* _settings_reset after "Type 'RESET' to confirm: "; unlink_ok is whether
\* CONFIG_FILE.unlink() succeeds (False: it raises OSError).
ResetConfirm(inp, unlink_ok) ==
    /\ pc = "reset_confirm"
    /\ call' = <<>>
    /\ IF ~Confirmed(Strip(inp))
       THEN /\ Return("reset_confirm", "reset_cancelled")
            /\ UNCHANGED file
       ELSE IF file # <<>> /\ ~unlink_ok
       THEN /\ Return("reset_confirm", "could_not_delete")
            /\ UNCHANGED file
       ELSE /\ file' = <<>>
            /\ Return("reset_confirm", "reset_complete")
    /\ UNCHANGED <<cfg, security, current_user, ai_status, exc, locals, shutdown_runs>>

\* _cmd_apps after "Choose app number, 'a' or 'q': ".  Any other choice is a
\* bad number or an app run as a child process; the apps directory is not
\* modelled, both print and continue the loop.
AppsChoice(inp) ==
    /\ pc = "apps_choice"
    /\ call' = <<>>
    /\ LET choice == Lower(Strip(inp)) IN
       IF choice = s_q \/ choice = <<>>
       THEN Return("apps_choice", "back")
       ELSE IF choice = s_a
       THEN /\ pc' = "apps_cmd" /\ ret' = ret
            /\ last' = Step("apps_choice", "ask_install_command")
       ELSE /\ pc' = "apps_choice" /\ ret' = ret
            /\ last' = Step("apps_choice", "continue")
    /\ UNCHANGED <<store, security, current_user, ai_status, exc, locals,
                   shutdown_runs>>

\* "Enter shell command (or ENTER to cancel): ", then the loop continues.
AppsInstall(inp) ==
    /\ pc = "apps_cmd"
    /\ call' = <<>>
    /\ pc' = "apps_choice" /\ ret' = ret
    /\ last' = Step("apps_cmd", "continue")
    /\ UNCHANGED <<store, security, current_user, ai_status, exc, locals,
                   shutdown_runs>>

(* ---------------- end of input, interrupt, the two drivers ---------------- *)
\* The positions blocked in input().
InputPrompts ==
    {"setup_owner", "setup_code", "setup_confirm", "setup_ack", "diag_ack",
     "login_username", "login_code", "cmd", "ai_question", "admin_choice",
     "admin_key", "settings_choice", "update_url", "reset_code", "reset_confirm",
     "apps_choice", "apps_cmd"}

\* input() raises EOFError; only _command_loop catches it, and breaks.
EndOfInput ==
    /\ pc \in InputPrompts
    /\ call' = <<>>
    /\ IF pc = "cmd"
       THEN pc' = AfterBreak /\ exc' = exc
       ELSE pc' = "unwinding" /\ exc' = "EOFError"
    /\ ret' = "home"
    /\ owner' = <<>> /\ new_code' = <<>> /\ username' = <<>>
    /\ last' = Step("read", "end_of_input")
    /\ UNCHANGED <<store, security, current_user, ai_status, shutdown_runs>>

\* Ctrl+C while blocked in a read: KeyboardInterrupt, caught nowhere below main.
Interrupt ==
    /\ pc \in InputPrompts \cup {"home"}
    /\ call' = <<>>
    /\ pc' = "unwinding" /\ exc' = "KeyboardInterrupt"
    /\ ret' = "home"
    /\ owner' = <<>> /\ new_code' = <<>> /\ username' = <<>>
    /\ last' = Step("read", "interrupt")
    /\ UNCHANGED <<store, security, current_user, ai_status, shutdown_runs>>

\* boot(): `except SystemExit as exc: if str(exc) == "REBOOT": continue`.
\* A handler that compares with the wrong text and so breaks out of the boot
\* loop; C4 must tell it from IsReboot.
IsRebootLower(e) == e = "reboot"

IsReboot(e) == e = "REBOOT"

\* boot()'s handler of SystemExit.
BootExcept ==
    /\ pc = "unwinding"
    /\ call' = <<>>
    /\ exc \in {"REBOOT"}
    /\ pc' = IF IsReboot(exc) THEN "boot" ELSE "shutdown"
    /\ exc' = "none"
    /\ last' = Step("boot_except", IF IsReboot(exc) THEN "reboot" ELSE "break")
    /\ UNCHANGED <<store, security, current_user, ai_status, ret, locals, shutdown_runs>>

\* main(): `except KeyboardInterrupt` prints and swallows; any other
\* exception only passes the `finally` and goes on propagating.
MainExcept ==
    /\ pc = "unwinding"
    /\ call' = <<>>
    /\ exc \in {"KeyboardInterrupt", "EOFError"}
    /\ pc' = "shutdown"
    /\ exc' = IF exc = "KeyboardInterrupt" THEN "none" ELSE exc
    /\ last' = Step("main_except", IF exc = "KeyboardInterrupt" THEN "interrupted" ELSE "none")
    /\ UNCHANGED <<store, security, current_user, ai_status, ret, locals, shutdown_runs>>

\* main()'s `finally: kernel.shutdown()`, then `return 0` or the traceback of
\* the exception still propagating.
Shutdown ==
    /\ pc = "shutdown"
    /\ call' = <<>>
    /\ shutdown_runs' = shutdown_runs + 1
    /\ pc' = "exited"
    /\ last' = Step("shutdown", IF exc = "none" THEN "exit_0" ELSE "traceback")
    /\ UNCHANGED <<store, security, current_user, ai_status, ret, exc, locals>>

\* The program is started again: a new process, a new SimpKernel, the file
\* as the last process left it.
Restart ==
    /\ pc = "exited"
    /\ call' = <<>>
    /\ cfg' = SimpKernel(file).cfg
    /\ file' = SimpKernel(file).file
    /\ failed_logins' = SimpKernel(file).failed_logins
    /\ logs' = SimpKernel(file).logs
    /\ current_user' = SimpKernel(file).current_user
    /\ ai_status' = SimpKernel(file).ai_status
    /\ exc' = SimpKernel(file).raised
    /\ pc' = IF SimpKernel(file).raised = "none" THEN "boot" ELSE "exited"
    /\ last' = Step("start", IF SimpKernel(file).raised = "none" THEN "none" ELSE "traceback")
    /\ ret' = "home"
    /\ shutdown_runs' = 0
    /\ UNCHANGED locals

(* ---------------- the inputs tried ---------------- *)
OwnerInputs == {<<>>, s_joe}
SetupCodeInputs == {<<>>, s_s3}
SetupConfirmInputs == {<<>>, s_s3_sp, DEFAULT_ADMIN_CODE}
UsernameInputs == {<<>>, s_guest_sp, s_Admin}
CodeInputs == {DEFAULT_ADMIN_CODE, s_s3_sp}
MenuInputs == {<<>>, s_1, s_2, s_3, s_4, s_9}
KeyInputs == {<<>>}
UrlInputs == {<<>>}
ConfirmInputs == {<<>>, s_RESET, s_RESET_sp, s_reset}
AppsInputs == {<<>>, s_Q, s_a, s_1}
InstallInputs == {<<>>, s_ls}
Questions == {s_hi}

Next ==
    \/ BootOnce
    \/ \E inp \in OwnerInputs : SetupOwner(inp)
    \/ \E inp \in SetupCodeInputs : SetupCode(inp)
    \/ \E inp \in SetupConfirmInputs : SetupConfirm(inp)
    \/ SetupAck(<<>>)
    \/ DiagAck(<<>>)
    \/ \E inp \in UsernameInputs : LoginUsername(inp)
    \/ \E inp \in CodeInputs : LoginCode(inp)
    \/ \E choice \in 0..Len(options) : HomeScreen(choice)
    \/ \E line \in CommandLines : CommandLoop(line)
    \/ \E inp \in Questions : AiQuestion(inp)
    \/ \E inp \in MenuInputs : AdminChoice(inp)
    \/ \E inp \in KeyInputs : AdminKey(inp)
    \/ \E inp \in MenuInputs : SettingsChoice(inp)
    \/ \E inp \in UrlInputs : SettingsUpdate(inp)
    \/ \E inp \in CodeInputs : ResetCode(inp)
    \/ \E inp \in ConfirmInputs, unlink_ok \in BOOLEAN : ResetConfirm(inp, unlink_ok)
    \/ \E inp \in AppsInputs : AppsChoice(inp)
    \/ \E inp \in InstallInputs : AppsInstall(inp)
    \/ EndOfInput
    \/ Interrupt
    \/ BootExcept
    \/ MainExcept
    \/ Shutdown
    \/ Restart

Spec == Init /\ [][Next]_vars

(* ---------------- the AI profile ---------------- *)
\* A second set of runs, for the AI assistant: the system is set up, the
\* operator logs in (as admin or as guest), uses the admin menu, the AI
\* commands and the AI console, reboots, shuts down and starts again; API
\* keys are entered, and nothing is typed that the AI does not depend on.

\* The set-up configuration, and one edited by hand to online mode with the
\* flag set and an empty key.
AIFiles ==
    {save_config([SimpConfig EXCEPT !.first_run_completed = TRUE,
                                    !.owner_name = Some(s_joe)]),
     save_config([SimpConfig EXCEPT !.first_run_completed = TRUE,
                                    !.owner_name = Some(s_joe),
                                    !.ai_mode = "online",
                                    !.allow_online_ai = TRUE,
                                    !.api_key = Some(<<>>)])}

InitAI ==
    /\ \E f \in AIFiles :
        /\ cfg = SimpKernel(f).cfg
        /\ file = SimpKernel(f).file
        /\ failed_logins = SimpKernel(f).failed_logins
        /\ logs = SimpKernel(f).logs
        /\ current_user = SimpKernel(f).current_user
        /\ ai_status = SimpKernel(f).ai_status
    /\ exc = "none"
    /\ pc = "boot"
    /\ last = Step("init", "none")
    /\ ret = "home"
    /\ owner = <<>>
    /\ new_code = <<>>
    /\ username = <<>>
    /\ shutdown_runs = 0
    /\ call = <<>>

AIUsernameInputs == {<<>>, s_Admin}
AICodeInputs == {DEFAULT_ADMIN_CODE}
AIHomeChoices == {1, 4, 5, 6}
AIMenuInputs == {<<>>, s_2, s_3}
AIKeyInputs == {<<>>, s_k1}

NextAI ==
    \/ BootOnce
    \/ DiagAck(<<>>)
    \/ \E inp \in AIUsernameInputs : LoginUsername(inp)
    \/ \E inp \in AICodeInputs : LoginCode(inp)
    \/ \E choice \in AIHomeChoices : HomeScreen(choice)
    \/ \E line \in AICommandLines : CommandLoop(line)
    \/ \E inp \in Questions : AiQuestion(inp)
    \/ \E inp \in AIMenuInputs : AdminChoice(inp)
    \/ \E inp \in AIKeyInputs : AdminKey(inp)
    \/ BootExcept
    \/ Shutdown
    \/ Restart

SpecAI == InitAI /\ [][NextAI]_vars

(* ---------------- config.py on its own ---------------- *)
\* save_config and load_config applied, in any order, to configuration
\* records and file contents drawn from bounded sets; cfg is the record the
\* caller holds, exc the exception the last call raised.

\* Configuration records: every field at two or three values.
Configs ==
    [admin_code          : {DEFAULT_ADMIN_CODE, s_s3},
     ai_mode             : {"local", "online"},
     api_key             : {None, Some(s_k1), Some(<<>>)},
     allow_online_ai     : BOOLEAN,
     update_repo_url     : {None, Some(DEFAULT_REPO_URL)},
     owner_name          : {None, Some(s_joe)},
     first_run_completed : BOOLEAN]

\* File contents: none, text that is not JSON, JSON that is not an object,
\* an object with members missing, an object whose flags are not booleans.
FilesTried ==
    {<<>>,
     <<[kind |-> "garbage", data |-> <<>>]>>,
     <<[kind |-> "nondict", data |-> <<>>]>>,
     <<[kind |-> "dict", data |-> [owner_name |-> JStr(s_joe)]]>>,
     <<[kind |-> "dict", data |-> [first_run_completed |-> JStr(s_hi),
                                   allow_online_ai |-> JNull]]>>}

InitConfig ==
    /\ cfg \in Configs
    /\ file \in FilesTried
    /\ failed_logins = 0
    /\ logs = <<>>
    /\ current_user = <<>>
    /\ ai_status = AiStatus(SimpConfig)
    /\ exc = "none"
    /\ pc = "config"
    /\ last = Step("init", "none")
    /\ ret = "home"
    /\ owner = <<>>
    /\ new_code = <<>>
    /\ username = <<>>
    /\ shutdown_runs = 0
    /\ call = <<>>

\* save_config(cfg).
SaveConfig ==
    /\ pc = "config"
    /\ file' = save_config(cfg)
    /\ exc' = "none"
    /\ last' = Step("save_config", "none")
    /\ UNCHANGED <<cfg, security, current_user, ai_status, pc, ret, locals,
                   shutdown_runs, call>>

\* cfg = load_config(); nothing is assigned when it raises.
LoadConfig ==
    /\ pc = "config"
    /\ cfg' = IF load_config(file)[3] = "none" THEN load_config(file)[1] ELSE cfg
    /\ file' = load_config(file)[2]
    /\ exc' = load_config(file)[3]
    /\ last' = Step("load_config", IF load_config(file)[3] = "none" THEN "returned" ELSE "raised")
    /\ UNCHANGED <<security, current_user, ai_status, pc, ret, locals,
                   shutdown_runs, call>>

NextConfig ==
    \/ SaveConfig
    \/ LoadConfig

SpecConfig == InitConfig /\ [][NextConfig]_vars

(* ======================= the claims ======================= *)
\* What the claims call "the user typed": the line after input().strip().
\* The claims are stated on the program's own variables and on what was read,
\* never on the helper predicates of the actions.

\* The current user is an admin.
IsAdminNow == current_user # <<>> /\ current_user[1].is_admin

\* The command name of a line: its first token, case-folded (<<>> if none).
NameOf(line) == IF Split(line) = <<>> THEN <<>> ELSE Lower(Split(line)[1])

\* The index select_menu returns for a label, plus one.
IndexOf(label) == CHOOSE i \in 1..Len(options) : options[i] = label

\* The configuration a content of the file reads back as.
Persisted == FromData(file[1].data)

(* ---------------- C1 ---------------- *)
\* The lines of CommandLines by their command name.
AdminLines == {l \in CommandLines : NameOf(l) = s_admin}
ResetLines == {l \in CommandLines : NameOf(l) = s_reset}
RebootLines == {l \in CommandLines : NameOf(l) = s_reboot}
ShutdownLines == {l \in CommandLines : NameOf(l) = s_shutdown}

\* The factory reset is invoked by this step: the `reset` command, or
\* choice 4 of the settings menu.
ResetInvoked ==
    \/ pc = "cmd" /\ \E line \in ResetLines : CommandLoop(line)
    \/ pc = "settings_choice" /\ \E inp \in MenuInputs : Strip(inp) = s_4 /\ SettingsChoice(inp)

\* C1: factory reset requires an admin user: invoked while the current user
\* is not an admin it prints access denied and asks nothing, and while the
\* current user is not an admin no answer to the reset prompts (admin code,
\* confirmation token) deletes or changes the persisted configuration file.
C1_ResetRequiresAdmin ==
    /\ [][(~IsAdminNow /\ pc \in {"reset_code", "reset_confirm"}) => file' = file]_vars
    /\ [][(~IsAdminNow /\ ResetInvoked) =>
            (last'.out = "access_denied" /\ pc' # "reset_code")]_vars

(* ---------------- C2 ---------------- *)
\* The `admin` command, "Admin tools" of the home menu, or choice 3 ("Update
\* from GitHub") of the settings menu is invoked by this step.
AdminGatedInvoked ==
    \/ pc = "cmd" /\ \E line \in AdminLines : CommandLoop(line)
    \/ pc = "home" /\ HomeScreen(IndexOf("Admin tools"))
    \/ pc = "settings_choice" /\ \E inp \in MenuInputs : Strip(inp) = s_3 /\ SettingsChoice(inp)

\* C2: invoked by a user who is not an admin, the admin command and the
\* settings update are denied at once: access denied is printed, control is
\* back at the caller's prompt with no further read, and the configuration,
\* the persisted file, the security log, the failed-login counter, the
\* current user and the AI status are what they were.
C2_DeniedChangesNothing ==
    [][(~IsAdminNow /\ AdminGatedInvoked) =>
          /\ last'.out = "access_denied"
          /\ pc' \in {"home", "cmd"}
          /\ pc' = IF pc = "settings_choice" THEN ret ELSE pc
          /\ UNCHANGED <<cfg, file, failed_logins, logs, current_user, ai_status>>]_vars

\* A non-admin was denied the settings update while a repository URL, once
\* stored by an admin, is in the configuration and on disk.
C2_Witness ==
    /\ last = Step("settings_choice", "access_denied")
    /\ ~IsAdminNow
    /\ cfg.update_repo_url # None
    /\ file # <<>>

(* ---------------- C3 ---------------- *)
\* C3: `shutdown` entered at the command prompt ends the session: the next
\* position is the shutdown step, not the home menu and not a prompt.
C3_ShutdownCommandPowersOff ==
    [][\A line \in ShutdownLines : (pc = "cmd" /\ CommandLoop(line)) => pc' = "shutdown"]_vars

(* ---------------- C4 ---------------- *)
\* A reboot is requested by this step: the `reboot` command, or "Reboot" of
\* the home menu.
RebootRequested ==
    \/ pc = "cmd" /\ \E line \in RebootLines : CommandLoop(line)
    \/ pc = "home" /\ HomeScreen(IndexOf("Reboot"))

\* C4: a reboot request leaves every enclosing loop as the propagating
\* SystemExit("REBOOT"); the boot driver catches it and starts the boot
\* sequence again without the shutdown step having run and without the
\* process ending; the restarted sequence runs the diagnostics (after the
\* first-run setup, were it needed).
C4_RebootRestartsBoot ==
    /\ [][RebootRequested => (pc' = "unwinding" /\ exc' = "REBOOT")]_vars
    /\ [][exc = "REBOOT" =>
            (pc' = "boot" /\ exc' = "none" /\ shutdown_runs' = shutdown_runs)]_vars
    /\ [][(pc = "boot" /\ last.op = "boot_except") =>
            (pc' \in {"diag_ack", "setup_owner"} /\ shutdown_runs' = 0)]_vars

\* The diagnostics have run again in a process in which a login had already
\* happened: a boot cycle started by a reboot.
C4_Witness ==
    /\ pc = "diag_ack"
    /\ logs # <<>>
    /\ shutdown_runs = 0

(* ---------------- C5 ---------------- *)
\* The positions of a boot cycle before its login has succeeded.
BeforeLogin ==
    {"boot", "setup_owner", "setup_code", "setup_confirm", "setup_ack",
     "diag_ack", "login_username", "login_code"}

\* C5: from the re-entry of the boot sequence until the next successful
\* login there is no current user.
C5_NoUserBeforeLogin == pc \in BeforeLogin => current_user = <<>>

(* ---------------- C6 ---------------- *)
\* C6: the reboot writes nothing to the file, and the configuration the new
\* boot cycle works with is the one the persisted file reads back as, the
\* defaults when the file is absent.
C6_RebootReloadsConfig ==
    [][exc = "REBOOT" => (file' = file /\ cfg' = load_config(file)[1])]_vars

(* ---------------- C7 ---------------- *)
\* C7: a username that is "admin" in any letter case is asked for the code;
\* a code other than the configured one adds 1 to the failed-login counter,
\* appends the one entry (username, failed_login) to the log, leaves the
\* current user as it was and asks for the username again; the configured
\* code, at the first or at a later attempt, makes the current user
\* (admin, is_admin = true) and leaves the counter alone.
C7_AdminLogin ==
    /\ [][\A inp \in UsernameInputs :
            (Lower(Strip(inp)) = s_admin /\ LoginUsername(inp)) =>
               /\ pc' = "login_code"
               /\ username' = Strip(inp)
               /\ UNCHANGED <<current_user, failed_logins, logs>>]_vars
    /\ [][\A inp \in CodeInputs :
            LoginCode(inp) =>
               IF Strip(inp) # cfg.admin_code
               THEN /\ failed_logins' = failed_logins + 1
                    /\ logs' = Append(logs, [user |-> username, event |-> "failed_login"])
                    /\ current_user' = current_user
                    /\ pc' = "login_username"
               ELSE /\ current_user' = <<[username |-> s_admin, is_admin |-> TRUE]>>
                    /\ failed_logins' = failed_logins
                    /\ pc' = "home"]_vars

\* The admin is logged in by the correct code after one failed attempt.
C7_Witness ==
    /\ last = Step("login_code", "admin_login")
    /\ failed_logins = 1
    /\ logs[1].event = "failed_login"
    /\ IsAdminNow

(* ---------------- C8 ---------------- *)
\* C8: a username that is not "admin" in any letter case logs in at once:
\* no code is asked, the user is current with is_admin = false, and the
\* failed-login counter is what it was.
C8_NormalLogin ==
    [][\A inp \in UsernameInputs :
          (Lower(Strip(inp)) # s_admin /\ LoginUsername(inp)) =>
             /\ pc' = "home"
             /\ current_user' # <<>>
             /\ ~current_user'[1].is_admin
             /\ current_user'[1].username = (IF Strip(inp) = <<>> THEN s_guest ELSE Strip(inp))
             /\ failed_logins' = failed_logins]_vars

\* A normal user is logged in after an earlier failed admin attempt, the
\* counter still at 1.
C8_Witness ==
    /\ last = Step("login_username", "user_login")
    /\ current_user = <<[username |-> s_guest, is_admin |-> FALSE]>>
    /\ failed_logins = 1

(* ---------------- C9 ---------------- *)
\* Setup starts only with the flag false, and not on a boot that finds the
\* flag true in the persisted file.
C9_SetupOnlyWhenNeeded ==
    /\ [][pc' = "setup_owner" => (pc = "boot" /\ ~cfg.first_run_completed)]_vars
    /\ [][(pc = "boot" /\ file # <<>> /\ file[1].kind = "dict"
              /\ "first_run_completed" \in DOMAIN file[1].data
              /\ file[1].data.first_run_completed = JBool(TRUE)) =>
            pc' # "setup_owner"]_vars

\* The confirmation is compared with new_code: a mismatch repeats the code
\* prompt with the configuration and the file untouched, a match stores the
\* code and the owner, sets the flag and persists all three.
C9_ConfirmDecides ==
    [][\A inp \in SetupConfirmInputs :
          SetupConfirm(inp) =>
             IF new_code # Strip(inp)
             THEN pc' = "setup_code" /\ cfg' = cfg /\ file' = file
             ELSE /\ pc' = "setup_ack"
                  /\ cfg' = [cfg EXCEPT !.admin_code = new_code,
                                        !.owner_name = <<owner>>,
                                        !.first_run_completed = TRUE]
                  /\ file' # <<>> /\ file'[1].kind = "dict"
                  /\ FromData(file'[1].data) = cfg']_vars

\* C9 as stated: the code compared with the confirmation is the code
\* entered.
C9_Original ==
    /\ C9_SetupOnlyWhenNeeded
    /\ [][\A inp \in SetupCodeInputs : SetupCode(inp) => new_code' = Strip(inp)]_vars
    /\ C9_ConfirmDecides

\* C9 (amended): the code compared with the confirmation is the code
\* entered, or the current admin code when the entry is left empty.
C9_Amended ==
    /\ C9_SetupOnlyWhenNeeded
    /\ [][\A inp \in SetupCodeInputs :
            SetupCode(inp) =>
               new_code' = (IF Strip(inp) = <<>> THEN cfg.admin_code ELSE Strip(inp))]_vars
    /\ C9_ConfirmDecides

\* Setup has completed on an empty code entry: the default code was kept,
\* the flag is set and the file holds the configuration.
C9_Witness ==
    /\ last = Step("setup_confirm", "setup_complete")
    /\ cfg.admin_code = DEFAULT_ADMIN_CODE
    /\ cfg.first_run_completed
    /\ cfg.owner_name # None
    /\ file # <<>> /\ Persisted = cfg

(* ---------------- C10 ---------------- *)
\* C10: the reset asks for the confirmation only after the configured admin
\* code; it deletes the file exactly when the confirmation is "RESET" and the
\* file can be deleted; a wrong code, another confirmation or a failed
\* deletion leaves the file as it was; the configuration in memory is never
\* changed by it; and nothing else ever deletes the file.
C10_FactoryReset ==
    /\ [][\A inp \in CodeInputs :
            ResetCode(inp) =>
               /\ file' = file /\ cfg' = cfg
               /\ (pc' = "reset_confirm") = (Strip(inp) = cfg.admin_code)]_vars
    /\ [][\A inp \in ConfirmInputs, unlink_ok \in BOOLEAN :
            ResetConfirm(inp, unlink_ok) =>
               /\ cfg' = cfg
               /\ file' = IF Strip(inp) = s_RESET /\ unlink_ok THEN <<>> ELSE file]_vars
    /\ [][(file # <<>> /\ file' = <<>>) => pc = "reset_confirm"]_vars

\* The reset has deleted the file; the configuration in memory is still the
\* set-up one.
C10_Witness ==
    /\ last = Step("reset_confirm", "reset_complete")
    /\ file = <<>>
    /\ cfg.first_run_completed

(* ---------------- C11 ---------------- *)
\* C11: after a successful factory reset the next boot runs first-time
\* setup.  The file is absent only after a reset that succeeded in this
\* process, so: a boot sequence entered while the file is absent goes to the
\* setup, and a process started while the file is absent starts with the
\* flag false.
C11_ResetThenSetup ==
    /\ [][(pc = "boot" /\ file = <<>>) => pc' = "setup_owner"]_vars
    /\ [][(pc = "exited" /\ file = <<>> /\ pc' = "boot") => ~cfg'.first_run_completed]_vars

(* ---------------- C12 ---------------- *)
\* C12: whatever is read at whatever prompt, end-of-input included, a running
\* system ends only through the shutdown step and with no exception left
\* propagating out of main().
C12_NoUncontrolledExit ==
    [][(pc # "exited" /\ pc' = "exited") => (pc = "shutdown" /\ exc' = "none")]_vars

(* ---------------- C13 ---------------- *)
\* C13: an interrupt, in whatever state it arrives, is followed at once by
\* the interrupt message and the shutdown position, the shutdown step not
\* yet run; and whenever the process has ended, by whatever path, the
\* shutdown step has run exactly once.
C13_InterruptThenShutdown ==
    /\ [][exc = "KeyboardInterrupt" =>
            /\ pc' = "shutdown"
            /\ last'.out = "interrupted"
            /\ exc' = "none"
            /\ shutdown_runs' = shutdown_runs]_vars
    /\ [](pc = "exited" => shutdown_runs = 1)

(* ---------------- C14 ---------------- *)
\* Lines of the form name + " " + anyArgs that are among CommandLines, each
\* with the registered name its first word is a spelling of and the words of
\* anyArgs; a line with no arguments is the name alone.
DispatchCases ==
    {[typed |-> s_admin, rest |-> <<>>, name |-> s_admin, args |-> <<>>],
     [typed |-> s_reset, rest |-> <<>>, name |-> s_reset, args |-> <<>>],
     [typed |-> l_Reboot, rest |-> <<>>, name |-> s_reboot, args |-> <<>>],
     [typed |-> s_ai, rest |-> <<"O", "n", "l", "i", "n", "e">>, name |-> s_ai,
      args |-> <<<<"O", "n", "l", "i", "n", "e">>>>],
     [typed |-> s_home, rest |-> <<"x">>, name |-> s_home, args |-> <<<<"x">>>>],
     [typed |-> <<"L", "s">>, rest |-> <<" ", "-", "l", " ", "A">>, name |-> s_ls,
      args |-> <<<<"-", "l">>, <<"A">>>>],
     [typed |-> <<"S", "H", "U", "T", "D", "O", "W", "N">>, rest |-> <<"n", "o", "w">>,
      name |-> s_shutdown, args |-> <<<<"n", "o", "w">>>>]}

\* The line of a case.
LineOf(c) == IF c.rest = <<>> THEN c.typed ELSE c.typed \o <<" ">> \o c.rest

\* Dispatching the line of case c calls the handler registered under its
\* name, once, with its words as arguments, and calls nothing else.
Dispatched(c) ==
    (pc = "cmd" /\ handle_line(LineOf(c))) =>
        call' = <<[handler |-> handlers(c.name), args |-> c.args]>>

\* C14 as stated: for every registered name.
C14_Original == [][\A c \in DispatchCases : Dispatched(c)]_vars

\* C14 (amended): for every registered name other than "shutdown", dispatching
\* name + " " + anyArgs calls exactly the handler registered under that name,
\* exactly once, with the words of anyArgs as they were typed, the name
\* matched without regard to letter case.
C14_Amended ==
    [][\A c \in DispatchCases : c.name # s_shutdown => Dispatched(c)]_vars

\* "Ls  -l A" has been dispatched: _stub_future was called with -l and A.
C14_Witness ==
    /\ call = <<[handler |-> "_stub_future", args |-> <<<<"-", "l">>, <<"A">>>>]>>
    /\ last = Step("cmd", "future_stub")
    /\ pc = "cmd"

(* ---------------- C15 ---------------- *)
\* The lines of CommandLines made of blanks only.
BlankLines == {l \in CommandLines : \A i \in 1..Len(l) : l[i] = " "}

\* C15: dispatching an empty or blank line continues the loop, prints
\* nothing, calls no handler and leaves the configuration, the file, the
\* security log and counter, the current user and the AI status untouched.
C15_BlankLineNoEffect ==
    [][\A line \in BlankLines :
          (pc = "cmd" /\ handle_line(line)) =>
             /\ pc' = "cmd" /\ exc' = "none"
             /\ last'.out = "none"
             /\ call' = <<>>
             /\ UNCHANGED <<cfg, file, failed_logins, logs, current_user, ai_status>>]_vars

\* A line was dispatched with no message and no call, after a login.
C15_Witness ==
    /\ last = Step("cmd", "none")
    /\ call = <<>>
    /\ pc = "cmd"
    /\ current_user # <<>>

(* ---------------- C16 ---------------- *)
\* C16: dispatching a line whose first word is no registered name ("bogus")
\* continues the loop with the unknown-command message, raises nothing,
\* calls no handler and leaves the configuration, the file, the security log
\* and counter and the current user untouched.
C16_UnknownCommand ==
    [][(pc = "cmd" /\ handle_line(l_bogus)) =>
          /\ pc' = "cmd" /\ exc' = "none"
          /\ last'.out = "unknown_command"
          /\ call' = <<>>
          /\ UNCHANGED <<cfg, file, failed_logins, logs, current_user, ai_status>>]_vars

\* The unknown-command message has been printed at the command prompt.
C16_Witness ==
    /\ last = Step("cmd", "unknown_command")
    /\ pc = "cmd"
    /\ call = <<>>

(* ---------------- C17 ---------------- *)
\* The positions inside a handler that reads.
HandlerPrompts ==
    {"ai_question", "admin_choice", "settings_choice", "apps_choice", "reset_code"}

OnlineConfigured == cfg.allow_online_ai /\ cfg.api_key # None /\ cfg.api_key[1] # <<>>

\* C18: whatever step ends in an online answer, the flag was set and the key
\* was set and not empty when it was taken; and a question asked while the
\* mode is online and the flag or the key is missing is refused with the
\* access-denied message: it is not answered, online or locally.
C18_OnlineOnlyWhenConfigured ==
    /\ [][(last' # last /\ last'.out = "online_answer") => OnlineConfigured]_vars
    /\ [][\A q \in Questions :
            (AiQuestion(q) /\ cfg.ai_mode = "online" /\ ~OnlineConfigured) =>
               last'.out = "ai_access_denied"]_vars

\* A question was refused: the mode is online, the flag is set, and the key
\* has been cleared since the mode was switched.
C18_Witness ==
    /\ last = Step("ai_question", "ai_access_denied")
    /\ cfg.ai_mode = "online"
    /\ cfg.allow_online_ai
    /\ cfg.api_key = None

(* ---------------- C19 ---------------- *)
\* C19: a load that follows a save returns a record equal, field for field,
\* to the record that was saved, raises nothing and leaves the file as the
\* save wrote it.
C19_SaveLoadRoundTrip ==
    [][(last.op = "save_config" /\ LoadConfig) =>
          /\ exc' = "none"
          /\ file' = file
          /\ \A k \in {"admin_code", "ai_mode", "api_key", "allow_online_ai",
                       "update_repo_url", "owner_name", "first_run_completed"} :
                cfg'[k] = cfg[k]]_vars

\* A record with an empty-string key, online mode and a repository URL has
\* been saved and loaded back.
C19_Witness ==
    /\ last = Step("load_config", "returned")
    /\ cfg.api_key = Some(<<>>)
    /\ cfg.ai_mode = "online"
    /\ cfg.update_repo_url = Some(DEFAULT_REPO_URL)
    /\ cfg.first_run_completed

(* ---------------- C20 ---------------- *)
\* C20: load_config never raises; when the file is missing or its content is
\* not a JSON object (not parseable, or parseable but something else) it
\* returns the defaults and leaves a file holding the defaults.
C20_LoaderNeverRaises ==
    [][LoadConfig =>
          /\ exc' = "none"
          /\ (file = <<>> \/ file[1].kind # "dict") =>
                /\ cfg' = SimpConfig
                /\ file' # <<>> /\ file'[1].kind = "dict"
                /\ FromData(file'[1].data) = SimpConfig]_vars

(* ---------------- C21 ---------------- *)
\* The positions at which the program waits for the terminal: the prompts of
\* input() and the home menu's readkey().
Waiting == pc \in InputPrompts \cup {"home"}

\* C21: whenever the program waits for input and the configuration file
\* exists, the file is a JSON object that reads back as the configuration in
\* memory; and every step of a running system that changes a field of the
\* configuration leaves it persisted so before the next read.
C21_WriteThrough ==
    /\ [](Waiting /\ file # <<>> => file[1].kind = "dict" /\ FromData(file[1].data) = cfg)
    /\ [][(pc # "exited" /\ cfg' # cfg) =>
            (file' # <<>> /\ file'[1].kind = "dict" /\ FromData(file'[1].data) = cfg')]_vars

\* The admin has switched online AI on, after a repository URL was stored:
\* both are in memory and on disk, and the program waits for input.
C21_Witness ==
    /\ last = Step("admin_choice", "online_ai_toggled")
    /\ cfg.allow_online_ai
    /\ cfg.update_repo_url # None
    /\ Waiting
    /\ file # <<>> /\ Persisted = cfg

(* ---------------- C22 ---------------- *)
\* The number of failed_login entries of a log.
FailedEntries(l) == Cardinality({i \in DOMAIN l : l[i].event = "failed_login"})

\* C22: within one process, whatever the step (a login, a failed login, a
\* command, a menu choice, a reboot), the log before the step is a prefix of
\* the log after it and the failed-login counter does not decrease; and the
\* counter always equals the number of failed_login entries in the log.
C22_LogAppendOnly ==
    /\ [][pc # "exited" =>
            /\ Len(logs') >= Len(logs)
            /\ SubSeq(logs', 1, Len(logs)) = logs
            /\ failed_logins' >= failed_logins]_vars
    /\ [](failed_logins = FailedEntries(logs))

\* A user logged in, the system was rebooted, and an admin login then failed:
\* the entry of the first boot cycle is still the first of the log.
C22_Witness ==
    /\ last = Step("login_code", "invalid_admin_code")
    /\ Len(logs) = 2
    /\ logs[1].event = "user_login"
    /\ logs[2].event = "failed_login"
    /\ failed_logins = 1

(* ---------------- C23 ---------------- *)
\* The prompts of the handlers, and the first prompt of each handler the home
\* menu runs.
AllHandlerPrompts ==
    {"ai_question", "admin_choice", "admin_key", "settings_choice", "update_url",
     "reset_code", "reset_confirm", "apps_choice", "apps_cmd"}

FirstPromptOf(label) ==
    CASE label = "Apps" -> "apps_choice"
      [] label = "Settings" -> "settings_choice"
      [] label = "Admin tools" -> "admin_choice"
      [] label = "AI console" -> "ai_question"

\* C23: "Apps", "Settings", "Admin tools" and "AI console" of the home menu
\* run their handler inline: the handler is at its first prompt on behalf of
\* the home menu, or has returned to the home menu already; a handler run
\* from the home menu stays at its own prompts until it returns, and then the
\* home menu is next, never the command prompt and never the end of the
\* session (an interrupt, which ends every state, aside); "Shutdown" goes to
\* the shutdown step with no further read.
C23_HomeHandlersReturnHome ==
    /\ [][\A label \in {"Apps", "Settings", "Admin tools", "AI console"} :
            (pc = "home" /\ HomeScreen(IndexOf(label))) =>
               \/ pc' = "home"
               \/ pc' = FirstPromptOf(label) /\ ret' = "home"]_vars
    /\ [][(pc \in AllHandlerPrompts /\ ret = "home") =>
            \/ pc' = "home"
            \/ pc' \in AllHandlerPrompts /\ ret' = "home"
            \/ exc' = "KeyboardInterrupt"]_vars
    /\ [][(pc = "home" /\ HomeScreen(IndexOf("Shutdown"))) =>
            (pc' = "shutdown" /\ exc' = "none")]_vars
    /\ [][pc = "shutdown" => pc' = "exited"]_vars

(* ---------------- C24 ---------------- *)
\* The positions a boot cycle may go to next from each of its positions
\* before the login, when the read is answered.
NextInBoot(p) ==
    CASE p = "boot" -> {"setup_owner", "diag_ack"}
      [] p = "setup_owner" -> {"setup_code"}
      [] p = "setup_code" -> {"setup_confirm"}
      [] p = "setup_confirm" -> {"setup_code", "setup_ack"}
      [] p = "setup_ack" -> {"diag_ack"}
      [] p = "diag_ack" -> {"login_username"}
      [] p = "login_username" -> {"login_code", "home"}
      [] p = "login_code" -> {"login_username", "home"}

\* C24: every boot cycle, the first and each one a reboot starts, goes
\* through its positions in the one order: the setup prompts (only when the
\* flag is false), the diagnostics and their acknowledgment, the login; a
\* failed login asks for the username again; the home menu is entered from
\* the login only, by the step that produced the user and logged the login;
\* and no step before that is a home-menu action or calls a command handler.
\* (An interrupt or end-of-input leaves the cycle from any prompt.)
C24_BootOrder ==
    /\ [][(pc \in BeforeLogin) =>
            /\ pc' \in NextInBoot(pc) \cup {"unwinding"}
            /\ call' = <<>>
            /\ last'.op \in (BeforeLogin \cup {"read"})]_vars
    /\ [][pc = "boot" => (pc' = "setup_owner") = ~cfg.first_run_completed]_vars
    /\ [][(pc \in BeforeLogin /\ pc' = "home") =>
            /\ last'.out \in {"user_login", "admin_login"}
            /\ current_user' # <<>>
            /\ logs' = Append(logs, [user |-> current_user'[1].username, event |-> last'.out])]_vars
    /\ [][(pc = "login_code" /\ last'.out = "invalid_admin_code") => pc' = "login_username"]_vars
    /\ [][(pc \notin BeforeLogin /\ pc' \in BeforeLogin) =>
            (pc' = "boot" /\ (exc = "REBOOT" \/ pc = "exited"))]_vars

\* The home menu is entered by an admin login in a boot cycle that a reboot
\* started: the login of the earlier cycle is the first entry of the log.
C24_Witness ==
    /\ pc = "home"
    /\ last = Step("login_code", "admin_login")
    /\ Len(logs) = 2
    /\ logs[1].event = "user_login"

(* ---------------- C25 ---------------- *)
\* C25: end-of-input at the command prompt ends the system: the next position
\* is the shutdown step, not the home menu and not a prompt.
C25_EndOfInputExits ==
    [][(pc = "cmd" /\ EndOfInput) => pc' = "shutdown"]_vars

(* ---------------- C26 ---------------- *)
\* The lines of CommandLines that are `home` once stripped and case-folded.
HomeLines == {l \in CommandLines : Lower(Strip(l)) = s_home}

\* C26: "Open command line" and a cancelled menu both enter the command loop,
\* changing nothing; at the command prompt a line that is `home`, whatever
\* its letter case and the blanks around it, returns to the home menu with no
\* handler called and the configuration, the file, the security log and
\* counter, the current user and the AI status unchanged; nothing else the
\* command loop reads is answered by going home so; and a line that only
\* begins with `home` is dispatched and the loop continues.
C26_HomeAndCommandLoop ==
    /\ [][\A choice \in {0, IndexOf("Open command line")} :
            (pc = "home" /\ HomeScreen(choice)) =>
               /\ pc' = "cmd" /\ exc' = "none"
               /\ UNCHANGED <<cfg, file, failed_logins, logs, current_user, ai_status>>]_vars
    /\ [][\A line \in HomeLines :
            (pc = "cmd" /\ CommandLoop(line)) =>
               /\ pc' = "home" /\ exc' = "none"
               /\ last'.out = "go_home"
               /\ call' = <<>>
               /\ UNCHANGED <<cfg, file, failed_logins, logs, current_user, ai_status>>]_vars
    /\ [][(pc = "cmd" /\ last'.out = "go_home") => \E line \in HomeLines : CommandLoop(line)]_vars
    /\ [][(pc = "cmd" /\ CommandLoop(l_home_x)) =>
            /\ pc' = "cmd"
            /\ call' = <<[handler |-> "lambda_home", args |-> <<<<"x">>>>]>>]_vars

\* " Home " was typed at the command prompt: the home menu is next and no
\* handler was called.
C26_Witness ==
    /\ last = Step("cmd", "go_home")
    /\ pc = "home"
    /\ call = <<>>
    /\ current_user # <<>>

(* ---------------- C27 ---------------- *)
\* C27: `ai online` switches the mode only when the flag is set and a key is
\* set, and does switch it when the key is moreover not empty; `ai local`
\* always switches; a switch that succeeds sets the mode of the
\* configuration and of the AI status to the value asked for, changes no
\* other field and persists the configuration; a switch that is refused, and
\* set_mode called with a mode that is neither local nor online, leave the
\* configuration, the AI status and the file as they were; and the mode of
\* the configuration and the mode of the status are equal in every state.
C27_ModeSwitchGated ==
    /\ [][(pc = "cmd" /\ CommandLoop(l_ai_Online)) =>
            /\ last'.out \in {"mode_set", "online_mode_not_available"}
            /\ last'.out = "mode_set" => (cfg.allow_online_ai /\ cfg.api_key # None)
            /\ (cfg.allow_online_ai /\ cfg.api_key # None /\ cfg.api_key[1] # <<>>) =>
                  last'.out = "mode_set"
            /\ last'.out = "mode_set" =>
                  /\ cfg' = [cfg EXCEPT !.ai_mode = "online"]
                  /\ ai_status'.mode = "online"
                  /\ file' # <<>> /\ file'[1].kind = "dict" /\ FromData(file'[1].data) = cfg'
            /\ last'.out # "mode_set" => UNCHANGED <<cfg, file, ai_status>>]_vars
    /\ [][(pc = "cmd" /\ CommandLoop(l_ai_local)) =>
            /\ last'.out = "mode_set"
            /\ cfg' = [cfg EXCEPT !.ai_mode = "local"]
            /\ ai_status'.mode = "local"
            /\ file' # <<>> /\ file'[1].kind = "dict" /\ FromData(file'[1].data) = cfg']_vars
    /\ [](/\ set_mode("turbo").out = "unknown_ai_mode"
          /\ set_mode("turbo").cfg = cfg
          /\ set_mode("turbo").status = ai_status
          /\ set_mode("turbo").file = file)
    /\ [](cfg.ai_mode = ai_status.mode)

\* The mode has been switched to online, the flag and a key being set: the
\* configuration, the status and the file all hold the new mode.
C27_Witness ==
    /\ last = Step("cmd", "mode_set")
    /\ cfg.ai_mode = "online"
    /\ ai_status.mode = "online"
    /\ cfg.allow_online_ai /\ cfg.api_key = Some(s_k1)
    /\ file # <<>> /\ Persisted = cfg

(* ---------------- C28 ---------------- *)
\* C28: in every state, when the mode of the configuration is online the flag
\* is set and a key is set.
C28_OnlineImpliesAllowed ==
    cfg.ai_mode = "online" => (cfg.allow_online_ai /\ cfg.api_key # None)

(* ---------------- C29 ---------------- *)
\* C29: once the login of a boot cycle has succeeded, no step changes the
\* current user until the process has ended, whatever command, menu choice
\* or submenu input it answers; a step of a running process that changes the
\* current user is a login step; the user a boot cycle enters the home menu
\* with is an admin only when the step was the code prompt answered with the
\* admin code configured at that moment; and the admin code entered at the
\* reset prompt leaves the current user as it was.
C29_NoPrivilegeChange ==
    /\ [][(pc \notin (BeforeLogin \cup {"exited"})) => current_user' = current_user]_vars
    /\ [][(pc # "exited" /\ current_user' # current_user) =>
            /\ pc \in {"login_username", "login_code"}
            /\ pc' = "home"
            /\ current_user' # <<>>
            /\ current_user'[1].is_admin =>
                  /\ pc = "login_code"
                  /\ \E inp \in CodeInputs : Strip(inp) = cfg.admin_code /\ LoginCode(inp)]_vars
    /\ [][(pc \in BeforeLogin /\ pc' = "home") =>
            /\ current_user' # <<>>
            /\ current_user'[1].is_admin =>
                  /\ pc = "login_code"
                  /\ \E inp \in CodeInputs : Strip(inp) = cfg.admin_code /\ LoginCode(inp)]_vars
    /\ [][\A inp \in CodeInputs :
            (ResetCode(inp) /\ Strip(inp) = cfg.admin_code) =>
               (current_user' = current_user /\ pc' = "reset_confirm")]_vars

\* A user who is not an admin has entered the admin code at the reset prompt
\* and is still not an admin.
C29_Witness ==
    /\ last = Step("reset_code", "ask_confirm")
    /\ pc = "reset_confirm"
    /\ current_user # <<>>
    /\ ~current_user[1].is_admin

====
